---- MODULE Spec2Model ----
(***************************************************************************)
(* Model of relic/chunk_formats/Dow2/model/writer.py: the translation of a *)
(* parsed Dow2 model (trim-data meshes and materials) into the directives  *)
(* of a Wavefront OBJ stream and its MTL companion.                        *)
(*                                                                         *)
(* Python strings that the code takes apart (material names, texture      *)
(* paths) are sequences of one-character strings; strings that are only   *)
(* compared or passed on (shader names, property names) are TLA+ strings. *)
(* A stream is the sequence of the calls made on it: raw stream.write     *)
(* texts and the directive calls made on ObjWriter / MtlWriter.            *)
(***************************************************************************)
EXTENDS Integers, Sequences, FiniteSets, TLC

\* ------------------------------------------------------------------ bounds
MaxMeshes == 3
MaxVerts == 2
MaxMtrls == 2
MaxNameLen == 3
MaxTris == 2
MaxOffset == 1
MaxVars == 3
MaxPathLen == 3
MaxRootLen == 2

\* ------------------------------------------------------- python primitives
\* None and "" are both falsy and the code only ever tests truthiness
\* (name or ..., texture_ext or "", if texture_root), so both are <<>>.
None == <<>>

NoError == [type |-> "none", arg |-> "", at |-> "none"]

Max(S) == CHOOSE x \in S : \A y \in S : y <= x

RECURSIVE Flatten(_)
Flatten(ss) == IF ss = <<>> THEN <<>> ELSE Head(ss) \o Flatten(Tail(ss))

\* s.rsplit(".", maxsplit=1)
rsplit_rpartition(s) ==
    LET dots == {n \in 1..Len(s) : s[n] = "."}
    IN  IF dots = {} THEN <<None, s>>
        ELSE <<SubSeq(s, 1, Max(dots) - 1), SubSeq(s, Max(dots) + 1, Len(s))>>

rsplit(s) ==
    LET dots == {n \in 1..Len(s) : s[n] = "."}
    IN  IF dots = {} THEN <<s>>
        ELSE <<SubSeq(s, 1, Max(dots) - 1), SubSeq(s, Max(dots) + 1, Len(s))>>

\* ------------------------------------------------ ObjWriter / stream calls
Raw(text) == [kind |-> "raw", text |-> text]
MaterialLibrary(name) == [kind |-> "mtllib", name |-> name]
ObjectName(name) == [kind |-> "o", name |-> name]
VertexPosition(p) == [kind |-> "v", xyz |-> p]
VertexNormal(n) == [kind |-> "vn", xyz |-> n]
VertexUv(t) == [kind |-> "vt", uv |-> t]
UseMaterial(name) == [kind |-> "usemtl", name |-> name]
IndexFace(a, b, c, offset, zero_based) ==
    [kind |-> "f", tri |-> <<a, b, c>>, offset |-> offset, zero_based |-> zero_based]

\* The index numbers a face directive puts in the file: local index k is
\* written as offset + k + 1.
FaceIndexes(d) == {d.offset + d.tri[n] + 1 : n \in 1..3}

\* ------------------------------------------------- write_trim_data_to_obj
\* line 32:  _, name = name or chunk.material_name.rsplit(".", maxsplit=1)
\* Unpacking needs exactly two items: a two-item list from rsplit, or the two
\* characters of an explicit name; anything else raises ValueError.
UnpackName(name, material_name) ==
    IF name # None
    THEN IF Len(name) = 2 THEN [ok |-> TRUE, name |-> <<name[2]>>]
                          ELSE [ok |-> FALSE, name |-> None]
    ELSE LET parts == rsplit(material_name)
         IN  IF Len(parts) = 2 THEN [ok |-> TRUE, name |-> parts[2]]
                               ELSE [ok |-> FALSE, name |-> None]

\* lines 36-44
VertexLines(v) ==
    << Raw("\t"), VertexPosition(v.position),
       Raw("\t"), VertexNormal(v.normal),
       Raw("\t"), VertexUv(v.uv), Raw("\n") >>

WriteVertexes(vertexes) ==
    <<Raw("\t# Vertexes\n")>> \o
    Flatten([n \in 1..Len(vertexes) |-> VertexLines(vertexes[n])])

\* lines 49-53
WriteIndexes(indexes, v_offset) ==
    <<Raw("\t# Indexes\n")>> \o
    Flatten([n \in 1..(Len(indexes) \div 3) |->
        << Raw("\t"),
           IndexFace(indexes[3 * (n - 1) + 1], indexes[3 * (n - 1) + 2],
                     indexes[3 * (n - 1) + 3], v_offset, TRUE) >>])

\* lines 26-55; the result carries the stream after the call, whether the
\* call raised, and the returned offset.
write_trim_data_to_obj_use_label(stream, chunk, name, v_offset) ==
    LET s30 == Append(stream, Raw("\n# Object\n"))
        u == UnpackName(name, chunk.material_name)
    IN  IF ~u.ok
        THEN [stream |-> s30, raised |-> TRUE, ret |-> -1]
        ELSE [stream |-> Append(s30, ObjectName(u.name))
                         \o WriteVertexes(chunk.vertexes)
                         \o <<Raw("# Material\n"), UseMaterial(u.name)>>
                         \o WriteIndexes(chunk.indexes, v_offset),
              raised |-> FALSE,
              ret |-> v_offset + Len(chunk.vertexes)]

write_trim_data_to_obj(stream, chunk, name, v_offset) ==
    LET s30 == Append(stream, Raw("\n# Object\n"))
        u == UnpackName(name, chunk.material_name)
    IN  IF ~u.ok
        THEN [stream |-> s30, raised |-> TRUE, ret |-> -1]
        ELSE [stream |-> Append(s30, ObjectName(u.name))
                         \o WriteVertexes(chunk.vertexes)
                         \o <<Raw("# Material\n"), UseMaterial(chunk.material_name)>>
                         \o WriteIndexes(chunk.indexes, v_offset),
              raised |-> FALSE,
              ret |-> v_offset + Len(chunk.vertexes)]

\* lines 58-60
write_mtllib_to_obj_twice(stream, mtl_path) ==
    stream \o <<MaterialLibrary(mtl_path), MaterialLibrary(mtl_path)>>

write_mtllib_to_obj(stream, mtl_path) == Append(stream, MaterialLibrary(mtl_path))

\* ---------------------------------------------------------------- os.path
\* posixpath.join(a, b)
join(a, b) ==
    IF b # <<>> /\ b[1] = "/" THEN b
    ELSE IF a = <<>> \/ a[Len(a)] = "/" THEN a \o b
    ELSE a \o <<"/">> \o b

AllSlashes(s) == \A n \in 1..Len(s) : s[n] = "/"

RECURSIVE rstrip_slash(_)
rstrip_slash(s) ==
    IF s # <<>> /\ s[Len(s)] = "/" THEN rstrip_slash(SubSeq(s, 1, Len(s) - 1)) ELSE s

\* posixpath.split(p): (head, tail), tail the part after the last slash
split(p) ==
    LET slashes == {n \in 1..Len(p) : p[n] = "/"}
        cut == IF slashes = {} THEN 0 ELSE Max(slashes)
        head == SubSeq(p, 1, cut)
        tail == SubSeq(p, cut + 1, Len(p))
    IN  << IF head # <<>> /\ ~AllSlashes(head) THEN rstrip_slash(head) ELSE head, tail >>

\* str.replace(" ", "_")
replace_space(s) == [n \in 1..Len(s) |-> IF s[n] = " " THEN "_" ELSE s[n]]

\* ------------------------------------------------------------ TextureType
\* lines 71-81: member name by wire value
TextureTypeValues ==
    { "teamTex", "dirtTex", "badge2Tex", "badge1Tex", "normalMap", "diffuseTex",
      "emissiveTex", "specularTex", "occlusionTex", "glossTex" }

TextureType(value) ==
    CASE value = "teamTex" -> "Team"
      [] value = "dirtTex" -> "Dirt"
      [] value = "badge2Tex" -> "BadgeSecondary"
      [] value = "badge1Tex" -> "BadgePrimary"
      [] value = "normalMap" -> "Normal"
      [] value = "diffuseTex" -> "Diffuse"
      [] value = "emissiveTex" -> "Emissive"
      [] value = "specularTex" -> "Specular"
      [] value = "occlusionTex" -> "Occlusion"
      [] value = "glossTex" -> "Gloss"

\* lines 104-109
SupportedShaders == {"dow2_unit", "dow2_unit_2uv"}

\* -------------------------------------------------------- MtlWriter calls
DefaultTexture(name) == [kind |-> "default", name |-> name]
TextureDiffuse(path) == [kind |-> "diffuse", path |-> path]
TextureAlpha(path) == [kind |-> "alpha", path |-> path]
TextureNormal(path) == [kind |-> "normal", path |-> path]
TextureSpecular(path) == [kind |-> "specular", path |-> path]
TextureEmissive(path) == [kind |-> "emissive", path |-> path]
UnsupportedTexture(path, label) == [kind |-> "unsupported", path |-> path, label |-> label]

\* ------------------------------------------------------ write_mtrl_to_mtl
\* lines 132, 137-141
FullTexture_replace_all(texture, texture_root, texture_ext, force_valid) ==
    LET joined == IF texture_root # None THEN join(texture_root, texture) ELSE texture
        full == joined \o texture_ext
    IN  IF force_valid THEN replace_space(full) ELSE full

FullTexture(texture, texture_root, texture_ext, force_valid) ==
    LET joined == IF texture_root # None THEN join(texture_root, texture) ELSE texture
        full == joined \o texture_ext
        db == split(full)
    IN  IF force_valid THEN join(db[1], replace_space(db[2])) ELSE full

\* lines 143-166: the writer calls made for one (tex_type, full_texture)
TextureDirectives_drop_unsupported(tex_type, full_texture) ==
    CASE tex_type = "Emissive" -> <<TextureEmissive(full_texture)>>
      [] tex_type = "Diffuse" -> <<TextureDiffuse(full_texture), TextureAlpha(full_texture)>>
      [] tex_type = "Normal" -> <<TextureNormal(full_texture)>>
      [] tex_type = "Specular" -> <<TextureSpecular(full_texture)>>
      [] OTHER -> <<>>

TextureDirectives(tex_type, full_texture) ==
    CASE tex_type = "Team" -> <<UnsupportedTexture(full_texture, "Team")>>
      [] tex_type = "Dirt" -> <<UnsupportedTexture(full_texture, "Dirt")>>
      [] tex_type = "BadgePrimary" -> <<UnsupportedTexture(full_texture, "Badge 1")>>
      [] tex_type = "BadgeSecondary" -> <<UnsupportedTexture(full_texture, "Badge 2")>>
      [] tex_type = "Emissive" -> <<TextureEmissive(full_texture)>>
      [] tex_type = "Occlusion" -> <<UnsupportedTexture(full_texture, "Occlusion")>>
      [] tex_type = "Gloss" -> <<UnsupportedTexture(full_texture, "Gloss")>>
      [] tex_type = "Diffuse" -> <<TextureDiffuse(full_texture), TextureAlpha(full_texture)>>
      [] tex_type = "Normal" -> <<TextureNormal(full_texture)>>
      [] tex_type = "Specular" -> <<TextureSpecular(full_texture)>>

\* lines 96-98: the position of the next Texture variable at or after j,
\* Len(vars) + 1 when the generator is exhausted
NextTextureVar_no_skip(vars, j) == j

NextTextureVar(vars, j) ==
    LET rest == {n \in j..Len(vars) : vars[n].var_type = "Texture"}
    IN  IF rest = {} THEN Len(vars) + 1 ELSE CHOOSE n \in rest : \A m \in rest : n <= m

\* ------------------------------------------------------------------ inputs
SeqsUpTo(S, n) == UNION {[1..m -> S] : m \in 0..n}

V1 == [position |-> <<0, 0, 0>>, normal |-> <<0, 0, 1>>, uv |-> <<0, 0>>]
V2 == [position |-> <<1, 0, 0>>, normal |-> <<0, 1, 0>>, uv |-> <<1, 0>>]
VertexAt(n) == IF n % 2 = 1 THEN V1 ELSE V2

NameChars == {"a", "."}
Names == SeqsUpTo(NameChars, MaxNameLen)
ExplicitNames == SeqsUpTo({"a", "b"}, MaxNameLen)

\* 3 * t indexes, each a local index 0 or 1, no two triangles alike
IndexesOf(t) == [n \in 1..(3 * t) |-> (n \div 2) % 2]

TrimData(material_name, vertexes, indexes) ==
    [material_name |-> material_name, vertexes |-> vertexes, indexes |-> indexes]

\* meshes of a whole model: dotted or dot-free material names, 0..MaxVerts
\* vertexes, one triangle over the first and last vertex when there is one
ModelMeshes ==
    { TrimData(nm, [n \in 1..c |-> VertexAt(n)],
               IF c = 0 THEN <<>> ELSE <<0, c - 1, 0>>) :
        nm \in {<<"a", ".", "b">>, <<"a", "b">>}, c \in 0..MaxVerts }

VarChunk(var_type, property_name, a) ==
    [var_type |-> var_type, property_name |-> property_name, args |-> a]

Mtrl(name, shader_name, vs) ==
    [name |-> name, info |-> [shader_name |-> shader_name], vars |-> vs]

ModelMtrls ==
    { Mtrl("m_ok", "dow2_unit", <<VarChunk("Texture", "diffuseTex", <<"t", " ", "d">>)>>),
      Mtrl("m_shader", "dow2_other", <<>>),
      Mtrl("m_slot", "dow2_unit_2uv", <<VarChunk("Texture", "bogusTex", <<"t">>)>>) }

DumpArgs ==
    [call |-> "dump", name |-> None, v_offset |-> 0, mtl_path |-> "model.mtl",
     texture_root |-> <<"r">>, texture_ext |-> <<".", "d">>, force_valid |-> TRUE]

\* ------------------------------------------------------------------- state
VARIABLES
    chunk,       \* the parsed model: [meshs, mtrls]
    args,        \* the arguments of the call under way
    pc,          \* the line the call is at, "done" or "failed"
    obj_stream,  \* calls made on the OBJ stream, in order
    mtl_stream,  \* calls made on the MTL stream, in order
    v_offset,    \* write_model_to_obj's accumulator
    i,           \* loop position in chunk.meshs / chunk.mtrls (1-based)
    j,           \* position of fetch_textures_from_dow2_unit in mtrl.vars
    yielded,     \* the (type, path) pairs that generator has yielded so far
    ret,         \* value returned by write_model_to_obj / write_trim_data_to_obj
    error        \* the exception that ended the call, NoError if none

vars == <<chunk, args, pc, obj_stream, mtl_stream, v_offset, i, j, yielded, ret, error>>

Start(c, a, at) ==
    /\ chunk = c
    /\ args = a
    /\ pc = at
    /\ obj_stream = <<>>
    /\ mtl_stream = <<>>
    /\ v_offset = 0
    /\ i = 1
    /\ j = 1
    /\ yielded = <<>>
    /\ ret = -1
    /\ error = NoError

\* dump_model_as_obj(chunk, mtl_path, obj_stream, mtl_stream, root, ext)
Init ==
    \E ms \in SeqsUpTo(ModelMeshes, MaxMeshes), mt \in SeqsUpTo(ModelMtrls, MaxMtrls) :
        Start([meshs |-> ms, mtrls |-> mt], DumpArgs, "dump179")

Raise(type, arg, at) ==
    /\ pc' = "failed"
    /\ error' = [type |-> type, arg |-> arg, at |-> at]

\* line 179
DumpWriteMtllib ==
    /\ pc = "dump179"
    /\ obj_stream' = write_mtllib_to_obj(obj_stream, args.mtl_path)
    /\ pc' = "obj64"
    /\ UNCHANGED <<chunk, args, mtl_stream, v_offset, i, j, yielded, ret, error>>

\* line 180 -> line 64
ModelToObjEnter ==
    /\ pc = "obj64"
    /\ v_offset' = 0
    /\ i' = 1
    /\ pc' = "obj65"
    /\ UNCHANGED <<chunk, args, obj_stream, mtl_stream, j, yielded, ret, error>>

\* lines 65-66, one iteration:
\*     v_offset += write_trim_data_to_obj(stream, mesh.trim.data, v_offset=v_offset)
ModelToObjMesh ==
    /\ pc = "obj65"
    /\ i <= Len(chunk.meshs)
    /\ LET r == write_trim_data_to_obj(obj_stream, chunk.meshs[i], None, v_offset)
       IN  /\ obj_stream' = r.stream
           /\ IF r.raised
              THEN /\ Raise("ValueError", "unpack", "obj")
                   /\ UNCHANGED <<v_offset, i>>
              ELSE /\ v_offset' = v_offset + r.ret
                   /\ i' = i + 1
                   /\ UNCHANGED <<pc, error>>
    /\ UNCHANGED <<chunk, args, mtl_stream, j, yielded, ret>>

\* line 68
ModelToObjReturn ==
    /\ pc = "obj65"
    /\ i > Len(chunk.meshs)
    /\ ret' = v_offset
    /\ pc' = "mtl171"
    /\ UNCHANGED <<chunk, args, obj_stream, mtl_stream, v_offset, i, j, yielded, error>>

\* line 182 -> line 171
ModelToMtlEnter ==
    /\ pc = "mtl171"
    /\ i' = 1
    /\ pc' = "mtl172"
    /\ UNCHANGED <<chunk, args, obj_stream, mtl_stream, v_offset, j, yielded, ret, error>>

\* lines 132-136: write_mtrl_to_mtl up to the call of fetch_textures_from_mtrl
\* (lines 123-127), which raises before the loop starts or hands back the
\* generator of fetch_textures_from_dow2_unit
MtrlBegin ==
    /\ \/ pc = "mtl172" /\ i <= Len(chunk.mtrls)
       \/ pc = "mtrl132"
    /\ LET m == chunk.mtrls[i]
       IN  /\ mtl_stream' = Append(mtl_stream, DefaultTexture(m.name))
           /\ IF m.info.shader_name \in SupportedShaders
              THEN /\ pc' = "mtrl136"
                   /\ j' = 1
                   /\ yielded' = <<>>
                   /\ UNCHANGED error
              ELSE /\ Raise("NotImplementedError", m.info.shader_name, "mtl")
                   /\ UNCHANGED <<j, yielded>>
    /\ UNCHANGED <<chunk, args, obj_stream, v_offset, i, ret>>

\* line 136, one iteration: the generator runs to its next Texture variable
\* (lines 96-101), TextureType(property_name) raises ValueError for a value
\* of no member, else the loop body (lines 137-166) writes its directives
MtrlTexture ==
    /\ pc = "mtrl136"
    /\ LET vs == chunk.mtrls[i].vars
           n == NextTextureVar(vs, j)
       IN  /\ n <= Len(vs)
           /\ IF vs[n].property_name \in TextureTypeValues
              THEN /\ mtl_stream' = mtl_stream \o
                        TextureDirectives(TextureType(vs[n].property_name),
                            FullTexture(vs[n].args, args.texture_root,
                                        args.texture_ext, args.force_valid))
                   /\ j' = n + 1
                   /\ yielded' = Append(yielded,
                        <<TextureType(vs[n].property_name), vs[n].args>>)
                   /\ UNCHANGED <<pc, error>>
              ELSE /\ Raise("ValueError", vs[n].property_name, "mtl")
                   /\ UNCHANGED <<mtl_stream, j, yielded>>
    /\ UNCHANGED <<chunk, args, obj_stream, v_offset, i, ret>>

\* line 167 (the generator is exhausted), back in line 172-173 when called
\* from write_model_to_mtl.  The character count returned (stream.tell()
\* differences) is fixed by MtlWriter's formatting and is not modelled.
MtrlReturn ==
    /\ pc = "mtrl136"
    /\ NextTextureVar(chunk.mtrls[i].vars, j) > Len(chunk.mtrls[i].vars)
    /\ pc' = IF args.call = "mtrl" THEN "done" ELSE "mtl172"
    /\ i' = i + 1
    /\ UNCHANGED <<chunk, args, obj_stream, mtl_stream, v_offset, j, yielded, ret, error>>

\* line 174
ModelToMtlReturn ==
    /\ pc = "mtl172"
    /\ i > Len(chunk.mtrls)
    /\ pc' = "done"
    /\ UNCHANGED <<chunk, args, obj_stream, mtl_stream, v_offset, i, j, yielded, ret, error>>

Next ==
    \/ DumpWriteMtllib
    \/ ModelToObjEnter
    \/ ModelToObjMesh
    \/ ModelToObjReturn
    \/ ModelToMtlEnter
    \/ MtrlBegin
    \/ MtrlTexture
    \/ MtrlReturn
    \/ ModelToMtlReturn

Spec == Init /\ [][Next]_vars

\* ------------------------------------- write_trim_data_to_obj called alone
TrimArgs(name, offset) ==
    [call |-> "trim", name |-> name, v_offset |-> offset, mtl_path |-> "",
     texture_root |-> None, texture_ext |-> None, force_valid |-> TRUE]

InitTrim ==
    \E nm \in Names, vs \in SeqsUpTo({V1, V2}, MaxVerts), t \in 0..MaxTris,
       name \in ExplicitNames, offset \in 0..MaxOffset :
        Start([meshs |-> <<TrimData(nm, vs, IndexesOf(t))>>, mtrls |-> <<>>],
              TrimArgs(name, offset), "trim26")

\* lines 26-55
TrimCall ==
    /\ pc = "trim26"
    /\ LET r == write_trim_data_to_obj(obj_stream, chunk.meshs[1], args.name, args.v_offset)
       IN  /\ obj_stream' = r.stream
           /\ IF r.raised
              THEN /\ Raise("ValueError", "unpack", "obj")
                   /\ UNCHANGED ret
              ELSE /\ ret' = r.ret
                   /\ pc' = "done"
                   /\ UNCHANGED error
    /\ UNCHANGED <<chunk, args, mtl_stream, v_offset, i, j, yielded>>

NextTrim == TrimCall

SpecTrim == InitTrim /\ [][NextTrim]_vars

\* ------------------------------------------ write_mtrl_to_mtl called alone
MtrlArgs(texture_root, texture_ext, force_valid) ==
    [call |-> "mtrl", name |-> None, v_offset |-> 0, mtl_path |-> "",
     texture_root |-> texture_root, texture_ext |-> texture_ext,
     force_valid |-> force_valid]

\* every slot as a Texture variable, two with a second path, and variables
\* of another kind under a slot's name and under no slot's name
VarChunks ==
    { VarChunk("Texture", p, <<"t">>) : p \in TextureTypeValues \cup {"bogusTex"} }
    \cup { VarChunk("Texture", p, <<"u", " ", "v">>) : p \in {"diffuseTex", "normalMap"} }
    \cup { VarChunk("Float", p, <<"1">>) : p \in {"diffuseTex", "bogusTex"} }

ShaderNames == SupportedShaders \cup {"dow2_other"}

InitMtrl ==
    \E sh \in ShaderNames, vs \in SeqsUpTo(VarChunks, MaxVars),
       root \in {None, <<"r">>} :
        Start([meshs |-> <<>>, mtrls |-> <<Mtrl("m", sh, vs)>>],
              MtrlArgs(root, <<".", "d">>, TRUE), "mtrl132")

NextMtrl == MtrlBegin \/ MtrlTexture \/ MtrlReturn

SpecMtrl == InitMtrl /\ [][NextMtrl]_vars

\* one Texture variable, paths, roots and extensions with spaces and slashes
PathChars == {"a", " ", "/"}
Exts == {None, <<".", "d">>, <<" ", "x">>}

InitPath ==
    \E p \in {"diffuseTex", "normalMap"}, path \in SeqsUpTo(PathChars, MaxPathLen),
       root \in SeqsUpTo(PathChars, MaxRootLen), ext \in Exts, fv \in BOOLEAN :
        Start([meshs |-> <<>>,
               mtrls |-> <<Mtrl("m", "dow2_unit", <<VarChunk("Texture", p, path)>>)>>],
              MtrlArgs(root, ext, fv), "mtrl132")

SpecPath == InitPath /\ [][NextMtrl]_vars

\* ------------------------------------------------- vocabulary of the claims
IsDirective(d) == d.kind # "raw"
Directives(stream) == SelectSeq(stream, IsDirective)
KindCount(stream, k) == Cardinality({p \in 1..Len(stream) : stream[p].kind = k})
HasDot(s) == \E n \in 1..Len(s) : s[n] = "."

RECURSIVE SumVerts(_, _)
SumVerts(meshs, k) == IF k = 0 THEN 0 ELSE Len(meshs[k].vertexes) + SumVerts(meshs, k - 1)

RECURSIVE SumTris(_, _)
SumTris(meshs, k) == IF k = 0 THEN 0 ELSE (Len(meshs[k].indexes) \div 3) + SumTris(meshs, k - 1)

\* the number of the sub-mesh the stream entry at p belongs to
MeshOf(stream, p) == Cardinality({q \in 1..p : stream[q].kind = "o"})

\* C1: once write_model_to_obj has returned, the value returned is the sum of
\* the vertex counts of all sub-meshes of the model.
C1_ReturnsTotalVertexCount ==
    ret # -1 => ret = SumVerts(chunk.meshs, Len(chunk.meshs))

\* C2: every face directive of the k-th sub-mesh carries the offset
\* v1 + ... + v(k-1), and the index numbers it writes lie in the block
\* v1 + ... + v(k-1) + 1 .. v1 + ... + vk.
C2_ContiguousIndexBlocks ==
    \A p \in 1..Len(obj_stream) :
        obj_stream[p].kind = "f" =>
            LET k == MeshOf(obj_stream, p)
                lo == SumVerts(chunk.meshs, k - 1)
                hi == SumVerts(chunk.meshs, k)
            IN  /\ obj_stream[p].offset = lo
                /\ FaceIndexes(obj_stream[p]) \subseteq (lo + 1)..hi

\* C5: in dump_model_as_obj the material-library reference is the first entry
\* of the OBJ stream and occurs exactly once, nothing precedes it, and the MTL
\* stream is empty until write_model_to_obj has returned, so it is empty when
\* the geometry failed.
C5_MtllibFirstAndMtlUntouched ==
    /\ pc = "dump179" => obj_stream = <<>>
    /\ pc # "dump179" =>
        /\ obj_stream # <<>>
        /\ obj_stream[1] = MaterialLibrary(args.mtl_path)
        /\ KindCount(obj_stream, "mtllib") = 1
    /\ (pc \in {"dump179", "obj64", "obj65"} \/ error.at = "obj") => mtl_stream = <<>>

C5_Witness ==
    /\ pc = "failed"
    /\ error.at = "obj"
    /\ KindCount(obj_stream, "f") > 0
    /\ chunk.mtrls # <<>>

\* C10: a sub-mesh whose material name has no "." makes write_model_to_obj
\* fail with no directive of that sub-mesh written; the directives of the
\* sub-meshes before it are all in the stream, none of a later one is, and
\* the call never gets past the first such sub-mesh.
C10_DotlessNameAborts ==
    LET bad == {k \in 1..Len(chunk.meshs) : ~HasDot(chunk.meshs[k].material_name)}
        done == i - 1
        uses == SelectSeq(obj_stream, LAMBDA d : d.kind = "usemtl")
    IN  /\ bad # {} =>
            /\ pc \notin {"mtl171", "mtl172", "mtrl136", "done"}
            /\ ret = -1
            /\ \A k \in bad : i <= k
        /\ (pc = "failed" /\ error.at = "obj") =>
            /\ i \in bad
            /\ error.type = "ValueError"
            /\ obj_stream[Len(obj_stream)] = Raw("\n# Object\n")
            /\ KindCount(obj_stream, "o") = done
            /\ Len(uses) = done
            /\ \A k \in 1..done : uses[k].name = chunk.meshs[k].material_name
            /\ KindCount(obj_stream, "v") = SumVerts(chunk.meshs, done)
            /\ KindCount(obj_stream, "f") = SumTris(chunk.meshs, done)

C10_Witness ==
    /\ pc = "failed"
    /\ error.at = "obj"
    /\ i = 2
    /\ Len(chunk.meshs) = 3
    /\ KindCount(obj_stream, "f") = 1

\* the part of a material name after its last "."
SuffixAfterLastDot(s) ==
    LET k == CHOOSE n \in 1..Len(s) :
                 s[n] = "." /\ \A q \in (n + 1)..Len(s) : s[q] # "."
    IN  SubSeq(s, k + 1, Len(s))

\* C4: write_trim_data_to_obj writes exactly one object-name directive; given
\* an explicit name the call succeeds and the label is that name, and without
\* one the label is the part of material_name after its last ".".
C4_ObjectLabel ==
    LET os == SelectSeq(obj_stream, LAMBDA d : d.kind = "o")
    IN  pc # "trim26" =>
            /\ args.name # None =>
                /\ pc = "done"
                /\ Len(os) = 1
                /\ os[1].name = args.name
            /\ (args.name = None /\ pc = "done") =>
                /\ Len(os) = 1
                /\ os[1].name = SuffixAfterLastDot(chunk.meshs[1].material_name)

\* C9: a successful write_trim_data_to_obj on a sub-mesh of m vertexes and 3t
\* indexes writes, in order, one object name, the position, normal and uv of
\* each vertex in input order, one use-material naming material_name itself,
\* and t faces, the q-th from indexes 3q-2, 3q-1, 3q (1-based) with the call's
\* v_offset; it returns v_offset + m and leaves the sub-mesh as it was.
C9_SubMeshEmission ==
    [][ (pc = "trim26" /\ pc' = "done") =>
            LET mesh == chunk.meshs[1]
                m == Len(mesh.vertexes)
                t == Len(mesh.indexes) \div 3
                d == Directives(obj_stream')
            IN  /\ Len(d) = 1 + 3 * m + 1 + t
                /\ d[1].kind = "o"
                /\ \A n \in 1..m :
                    /\ d[3 * n - 1] = VertexPosition(mesh.vertexes[n].position)
                    /\ d[3 * n] = VertexNormal(mesh.vertexes[n].normal)
                    /\ d[3 * n + 1] = VertexUv(mesh.vertexes[n].uv)
                /\ d[3 * m + 2] = UseMaterial(mesh.material_name)
                /\ \A q \in 1..t :
                    d[3 * m + 2 + q] =
                        IndexFace(mesh.indexes[3 * q - 2], mesh.indexes[3 * q - 1],
                                  mesh.indexes[3 * q], args.v_offset, TRUE)
                /\ ret' = args.v_offset + m
                /\ chunk' = chunk ]_vars

C9_Witness ==
    /\ pc = "done"
    /\ args.call = "trim"
    /\ args.v_offset = 1
    /\ chunk.meshs[1].vertexes = <<V2, V1>>
    /\ Len(chunk.meshs[1].indexes) = 6
    /\ KindCount(obj_stream, "f") = 2
    /\ ret = 3

\* C3: when write_mtrl_to_mtl fails for an unsupported shader, nothing has
\* been written to the MTL stream for that material.
C3_NothingWrittenForUnsupportedShader ==
    error.type = "NotImplementedError" => mtl_stream = <<>>

IsTexture(v) == v.var_type = "Texture"

\* C6: with a supported shader the generator yields, in input order, the
\* (slot, argument) of the Texture variables and of no other variable; it
\* stops at the first Texture variable named by no slot with a ValueError
\* carrying that name, and no directive is written for that variable or any
\* variable after it; the call completes only when there is none.
C6_Extraction ==
    LET m == chunk.mtrls[1]
        vs == m.vars
        bads == {n \in 1..Len(vs) :
                    IsTexture(vs[n]) /\ vs[n].property_name \notin TextureTypeValues}
        stop == IF bads = {} THEN Len(vs) + 1
                ELSE CHOOSE n \in bads : \A q \in bads : n <= q
        texs == SelectSeq(SubSeq(vs, 1, IF pc = "failed" THEN stop - 1 ELSE j - 1),
                          IsTexture)
        expected == [n \in 1..Len(texs) |->
                        <<TextureType(texs[n].property_name), texs[n].args>>]
        diffuse == {n \in 1..Len(expected) : expected[n][1] = "Diffuse"}
    IN  (m.info.shader_name \in SupportedShaders /\ pc # "mtrl132") =>
            /\ j <= stop
            /\ yielded = expected
            /\ Len(mtl_stream) = 1 + Len(expected) + Cardinality(diffuse)
            /\ pc = "failed" =>
                /\ error.type = "ValueError"
                /\ stop <= Len(vs)
                /\ error.arg = vs[stop].property_name
            /\ pc = "done" => bads = {}

C6_Witness ==
    LET vs == chunk.mtrls[1].vars
    IN  /\ pc = "failed"
        /\ error.type = "ValueError"
        /\ Len(vs) = 3
        /\ ~IsTexture(vs[1]) /\ vs[1].property_name \notin TextureTypeValues
        /\ IsTexture(vs[2]) /\ yielded = <<<<"Diffuse", vs[2].args>>>>
        /\ IsTexture(vs[3]) /\ error.arg = vs[3].property_name
        /\ Len(mtl_stream) = 3

\* the directives the slot table gives for a slot and a resolved path
SlotLabel(slot) ==
    CASE slot = "Team" -> "Team"
      [] slot = "Dirt" -> "Dirt"
      [] slot = "BadgePrimary" -> "Badge 1"
      [] slot = "BadgeSecondary" -> "Badge 2"
      [] slot = "Occlusion" -> "Occlusion"
      [] slot = "Gloss" -> "Gloss"

SlotDirectives(slot, path) ==
    CASE slot = "Diffuse" -> << [kind |-> "diffuse", path |-> path],
                                [kind |-> "alpha", path |-> path] >>
      [] slot = "Normal" -> << [kind |-> "normal", path |-> path] >>
      [] slot = "Specular" -> << [kind |-> "specular", path |-> path] >>
      [] slot = "Emissive" -> << [kind |-> "emissive", path |-> path] >>
      [] OTHER -> << [kind |-> "unsupported", path |-> path, label |-> SlotLabel(slot)] >>

\* C7: a completed write_mtrl_to_mtl has written the default texture naming
\* the material and then, for each Texture variable in input order, the
\* directives of its slot: diffuse then alpha with one path for Diffuse, one
\* map for Normal, Specular and Emissive, one labelled unsupported annotation
\* for each other slot; 1 + Texture variables + Diffuse variables in all.
C7_MaterialDirectives ==
    LET m == chunk.mtrls[1]
        texs == SelectSeq(m.vars, IsTexture)
        path(n) == FullTexture(texs[n].args, args.texture_root, args.texture_ext,
                               args.force_valid)
        diffuse == {n \in 1..Len(texs) : texs[n].property_name = "diffuseTex"}
    IN  pc = "done" =>
            /\ mtl_stream = <<DefaultTexture(m.name)>> \o
                 Flatten([n \in 1..Len(texs) |->
                     SlotDirectives(TextureType(texs[n].property_name), path(n))])
            /\ Len(mtl_stream) = 1 + Len(texs) + Cardinality(diffuse)

C7_Witness ==
    /\ pc = "done"
    /\ Len(mtl_stream) = 5
    /\ mtl_stream[2].kind = "unsupported" /\ mtl_stream[2].label = "Badge 1"
    /\ mtl_stream[3].kind = "diffuse"
    /\ mtl_stream[4].kind = "alpha"
    /\ mtl_stream[5].kind = "emissive"

\* the parts of a path: what follows its last "/", and the non-empty names
\* between the slashes before that
LastSlash(p) ==
    LET slashes == {n \in 1..Len(p) : p[n] = "/"}
    IN  IF slashes = {} THEN 0 ELSE Max(slashes)

FinalSegment(p) == SubSeq(p, LastSlash(p) + 1, Len(p))

RECURSIVE Components(_)
Components(s) ==
    IF s = <<>> THEN <<>>
    ELSE IF s[1] = "/" THEN Components(Tail(s))
    ELSE LET stops == {n \in 1..Len(s) : s[n] = "/"}
             k == IF stops = {} THEN Len(s) + 1
                  ELSE CHOOSE n \in stops : \A q \in stops : n <= q
         IN  <<SubSeq(s, 1, k - 1)>> \o Components(SubSeq(s, k, Len(s)))

DirComponents(p) == Components(SubSeq(p, 1, LastSlash(p)))
IsAbsolute(p) == p # <<>> /\ p[1] = "/"
Underscored(s) == [n \in 1..Len(s) |-> IF s[n] = " " THEN "_" ELSE s[n]]

\* the path before force_valid is applied: root joined with the variable's
\* path when there is a root, then the extension
Unsanitized ==
    LET v == chunk.mtrls[1].vars[1]
    IN  (IF args.texture_root # None THEN join(args.texture_root, v.args) ELSE v.args)
        \o args.texture_ext

\* C8: every texture directive carries the root joined with the variable's
\* path (the path alone without a root) with the extension appended; with
\* force_valid the spaces of its final segment are "_" and its directory
\* components are those of the unsanitized path, without force_valid it is
\* the unsanitized path itself.
C8_TexturePath ==
    /\ FullTexture(<<"t", " ", "d", "/", "r", " ", "h">>, None, None, TRUE)
         = <<"t", " ", "d", "/", "r", "_", "h">>
    /\ FullTexture(<<"t", "/", "d">>, <<"r">>, <<".", "x">>, TRUE)
         = <<"r", "/", "t", "/", "d", ".", "x">>
    /\ pc = "done" =>
        /\ Len(mtl_stream) >= 2
        /\ \A p \in 2..Len(mtl_stream) :
            LET P == mtl_stream[p].path
            IN  IF args.force_valid
                THEN /\ FinalSegment(P) = Underscored(FinalSegment(Unsanitized))
                     /\ DirComponents(P) = DirComponents(Unsanitized)
                     /\ IsAbsolute(P) = IsAbsolute(Unsanitized)
                ELSE P = Unsanitized

C8_Witness ==
    /\ pc = "done"
    /\ args.force_valid
    /\ args.texture_root # None
    /\ args.texture_ext # None
    /\ \E c \in 1..Len(DirComponents(Unsanitized)) :
          \E n \in 1..Len(DirComponents(Unsanitized)[c]) :
              DirComponents(Unsanitized)[c][n] = " "
    /\ \E n \in 1..Len(chunk.mtrls[1].vars[1].args) :
          n > LastSlash(chunk.mtrls[1].vars[1].args)
          /\ chunk.mtrls[1].vars[1].args[n] = " "
    /\ Len(mtl_stream) = 3
====
